---- MODULE Spec2Model ----
(***************************************************************************)
(* ONVIF PTZ device session (custom_components/onvif_ptz).                 *)
(*                                                                         *)
(* The module models one ONVIFDevice object: the setup coroutine that the  *)
(* platform entry point drives (async_setup_entry -> async_setup), with    *)
(* one action per suspension point (every `await` of a device call), and   *)
(* the PTZ command coroutine async_perform_ptz.  The camera and the        *)
(* transport library are the environment: every awaited call completes     *)
(* with an outcome drawn from a small set (a response, or one of the       *)
(* exception classes the code names in its except clauses).                *)
(*                                                                         *)
(* Python's None is modelled as the empty sequence and a present value x   *)
(* as <<x>>, so that optional fields stay comparable.                      *)
(*                                                                         *)
(* Every set an action draws from is a definition without parameters whose *)
(* value is an enumerated set, so that TLC evaluates it once before the    *)
(* search starts and its workers never share a set that is still being     *)
(* enumerated.                                                             *)
(***************************************************************************)
EXTENDS Integers, Sequences, FiniteSets, TLC

\* ------------------------------------------------------------------ bounds
MaxProfiles == 2          \* longest media-profile listing the camera returns
MaxT == 1                 \* longest continuous_duration, in clock ticks
MaxInv == 2               \* number of caller tasks that may run a PTZ command
MaxStops == 2             \* number of async_stop calls made on one session
MaxDistance == 2          \* largest distance of a translated move, besides 5
MaxSpeed == 2             \* largest speed of a translated move

\* --------------------------------------------------------- program constants
ClockSkewLimit == 5       \* device.py:225  `if self._dt_diff_seconds > 5`

None == <<>>
Some(x) == <<x>>

CONTINUOUS_MOVE == "ContinuousMove"
RELATIVE_MOVE == "RelativeMove"
ABSOLUTE_MOVE == "AbsoluteMove"
GOTOPRESET_MOVE == "GotoPreset"
STOP_MOVE == "Stop"

DIR_UP == "UP"
DIR_DOWN == "DOWN"
DIR_LEFT == "LEFT"
DIR_RIGHT == "RIGHT"
ZOOM_OUT == "ZOOM_OUT"
ZOOM_IN == "ZOOM_IN"

\* const.py: PAN_FACTOR = {DIR_RIGHT: 1, DIR_LEFT: -1}, and dict.get(key, 0)
PAN_FACTOR(pan) == IF pan = Some(DIR_RIGHT) THEN 1 ELSE IF pan = Some(DIR_LEFT) THEN -1 ELSE 0
TILT_FACTOR(tilt) == IF tilt = Some(DIR_UP) THEN 1 ELSE IF tilt = Some(DIR_DOWN) THEN -1 ELSE 0
ZOOM_FACTOR(zoom) == IF zoom = Some(ZOOM_IN) THEN 1 ELSE IF zoom = Some(ZOOM_OUT) THEN -1 ELSE 0

\* ------------------------------------------------------------------- state
VARIABLES
    available,          \* ONVIFDevice.available
    info,               \* ONVIFDevice.info (DeviceInfo)
    capabilities,       \* ONVIFDevice.capabilities (Capabilities)
    profiles,           \* ONVIFDevice.profiles (list of Profile)
    dt_diff_seconds,    \* ONVIFDevice._dt_diff_seconds
    device,             \* ONVIFDevice.device: "unset", "open" or "closed" transport
    pc,                 \* the await at which the setup task is suspended
    loc,                \* locals of async_get_profiles: result, profiles, key,
                        \* and the positions whose GetPresets raised
    setup_result,       \* what async_setup did: "none", "true", "false", "raised"
    entry_result,       \* what async_setup_entry did
    registered,         \* hass.data[DOMAIN][entry.unique_id] holds the device
    closes,             \* number of completed device.close() calls
    wire,               \* requests sent to the camera during setup, in order
    probe,              \* outcome of device.get_definition("ptz")
    clock,              \* device_time of async_check_date_and_time, and how the
                        \* template query of the correction ended; kept until the
                        \* request that follows the check completes, after which
                        \* only a query that failed at network level stays on record
    raised,             \* the exception that left a setup step, and the step
    inv,                \* the caller tasks of async_perform_ptz
    stop                \* the calls of async_stop made so far, and how the last ended

sessionVars == <<available, info, capabilities, profiles, dt_diff_seconds, device>>
setupVars == <<pc, loc, setup_result, entry_result, registered, closes, wire, probe, clock, raised>>
vars == <<available, info, capabilities, profiles, dt_diff_seconds, device,
          pc, loc, setup_result, entry_result, registered, closes, wire, probe,
          clock, raised, inv, stop>>

\* ------------------------------------------------------------------ models.py
DeviceInfo(identity, mac) == [identity |-> identity, mac |-> mac]
Capabilities(ptz) == [ptz |-> ptz]
PTZ(continuous, relative, absolute) ==
    [continuous |-> continuous, relative |-> relative, absolute |-> absolute,
     presets |-> None]
Profile(index, token, name) == [index |-> index, token |-> token, name |-> name, ptz |-> None]

NoLocals == [result |-> <<>>, profiles |-> <<>>, key |-> 0, faulted |-> {}]
NotRaised == [step |-> "none", exc |-> "none"]
NoClock == [status |-> "unasked", UTCDateTime |-> FALSE, LocalDateTime |-> FALSE,
            DateTimeType |-> "NTP", diff |-> 0, template |-> "unasked"]
NoArgs == [distance |-> 0, speed |-> 0, continuous_duration |-> None, preset |-> None,
           pan |-> None, tilt |-> None, zoom |-> None]
NotStopped == [calls |-> 0, outcome |-> "none", exc |-> "none"]
\* a caller task that is not inside async_perform_ptz
Idle == [pc |-> "idle", profile |-> Profile(0, None, None), move_mode |-> STOP_MOVE,
         args |-> NoArgs, sent |-> <<>>, replies |-> <<>>, slept |-> 0,
         outcome |-> "none", exc |-> "none", logged |-> "none", during |-> {}]

TypeOK ==
    /\ available \in BOOLEAN
    /\ capabilities.ptz \in BOOLEAN
    /\ device \in {"unset", "open", "closed"}
    /\ Len(profiles) <= MaxProfiles
    /\ setup_result \in {"none", "true", "false", "raised"}
    /\ entry_result \in {"none", "true", "false", "not_ready", "raised"}
    /\ registered \in BOOLEAN
    /\ closes \in Nat

\* ONVIFDevice.__init__, reached from async_setup_entry line 33
Init ==
    /\ available = TRUE
    /\ info = DeviceInfo(None, None)
    /\ capabilities = Capabilities(FALSE)
    /\ profiles = <<>>
    /\ dt_diff_seconds = 0
    /\ device = "unset"
    /\ pc = "entry"
    /\ loc = NoLocals
    /\ setup_result = "none"
    /\ entry_result = "none"
    /\ registered = FALSE
    /\ closes = 0
    /\ wire = <<>>
    /\ probe = "none"
    /\ clock = NoClock
    /\ raised = NotRaised
    /\ inv = [i \in 1..MaxInv |-> Idle]
    /\ stop = NotStopped

\* ------------------------------------------------- what the camera may answer
\* An awaited call returns, or raises httpx.RequestError (network level) or
\* zeep Fault (protocol level): the two classes async_setup's handlers name.
CallOutcomes == {"ok", "RequestError", "Fault"}
Answered == {"ok"}

\* cam_date - system_date in seconds, around the limit of device.py:225
DriftValues == {0 - (ClockSkewLimit + 1), ClockSkewLimit, ClockSkewLimit + 1}

ClockAnswer(status, utc, local, type, diff) ==
    [status |-> status, UTCDateTime |-> utc, LocalDateTime |-> local,
     DateTimeType |-> type, diff |-> diff, template |-> "unasked"]

\* GetSystemDateAndTime: a date-time with or without its UTC and local parts,
\* a null answer, or an exception.
ClockOutcomes ==
    {a : a \in
        {ClockAnswer("answered", u, l, t, d) :
            u \in BOOLEAN, l \in BOOLEAN, t \in {"Manual", "NTP"}, d \in DriftValues}
        \cup {ClockAnswer(s, FALSE, FALSE, "NTP", 0) : s \in {"empty", "RequestError", "Fault"}}}

InSyncClock == {ClockAnswer("answered", TRUE, TRUE, "NTP", 0 - (ClockSkewLimit + 1))}

\* GetNetworkInterfaces: a list of interfaces, or an exception; a Fault may
\* carry the text "not implemented".
InterfaceLists ==
    {<<>>,
     <<[Enabled |-> TRUE, HwAddress |-> "mac1"], [Enabled |-> FALSE, HwAddress |-> "mac2"]>>}
InterfaceOutcomes ==
    {o : o \in
        {[status |-> "ok", list |-> l] : l \in InterfaceLists}
        \cup {[status |-> s, list |-> <<>>] :
                 s \in {"FaultNotImplemented", "Fault", "RequestError"}}}
NoInterfaces == {[status |-> "ok", list |-> <<>>]}

\* device.get_definition("ptz"): found, or one of the suppressed exceptions
ProbeOutcomes == {"ok", "ONVIFError", "Fault", "RequestError"}
FewProbeOutcomes == {"ok", "ONVIFError"}

\* A raw media profile of the GetProfiles answer.  PTZConfiguration is None or
\* carries the three default motion-space fields, each present or None.
Space(c, r, a) ==
    [DefaultContinuousPanTiltVelocitySpace |-> c,
     DefaultRelativePanTiltTranslationSpace |-> r,
     DefaultAbsolutePantTiltPositionSpace |-> a]
RawProfile(k, cfg) == [token |-> <<"token", k>>, Name |-> <<"name", k>>, PTZConfiguration |-> cfg]

AllConfigs ==
    {cfg : cfg \in {None} \cup {Some(Space(c, r, a)) : c \in BOOLEAN, r \in BOOLEAN, a \in BOOLEAN}}
\* no PTZ configuration, continuous only, relative and absolute only
FewConfigs == {None, Some(Space(TRUE, FALSE, FALSE)), Some(Space(FALSE, TRUE, TRUE))}

Listings(Configs) ==
    UNION {{[k \in 1..n |-> RawProfile(k, f[k])] : f \in [1..n -> Configs]} : n \in 0..MaxProfiles}

\* GetProfiles: a list, something that is not a list, or an exception
ProfileOutcomes(Configs) ==
    {o : o \in
        {[status |-> "ok", result |-> l] : l \in Listings(Configs)}
        \cup {[status |-> s, result |-> <<>>] : s \in {"not_a_list", "RequestError", "Fault"}}}
AllProfileOutcomes == ProfileOutcomes(AllConfigs)
FewProfileOutcomes == ProfileOutcomes(FewConfigs)
\* listings whose profiles all support relative and absolute moves
TranslateProfileOutcomes ==
    {[status |-> "ok", result |-> l] : l \in Listings({Some(Space(FALSE, TRUE, TRUE))})}
\* one listing of two profiles that support continuous and absolute moves
ConcurrentProfileOutcomes ==
    {[status |-> "ok",
      result |-> <<RawProfile(1, Some(Space(TRUE, FALSE, TRUE))),
                   RawProfile(2, Some(Space(TRUE, FALSE, TRUE)))>>]}

\* GetPresets: a list whose entries may be null, or an exception
NullPreset == [token |-> None]
Preset(t) == [token |-> Some(t)]
PresetLists ==
    {<<>>, <<Preset("p1")>>, <<Preset("p1"), NullPreset, Preset("p2")>>}
PresetOutcomes ==
    {o : o \in
        {[status |-> "ok", presets |-> l] : l \in PresetLists}
        \cup {[status |-> s, presets |-> <<>>] : s \in {"Fault", "RequestError"}}}
FewPresetOutcomes ==
    {[status |-> "ok", presets |-> <<Preset("p1"), NullPreset, Preset("p2")>>],
     [status |-> "Fault", presets |-> <<>>]}
OnePresetOutcome == {[status |-> "ok", presets |-> <<Preset("p1")>>]}

\* ------------------------------------------------------- control flow of setup
\* The coroutine suspends at the next awaited request.
Await(next, op) ==
    /\ pc' = next
    /\ wire' = Append(wire, op)
    /\ UNCHANGED <<available, setup_result, entry_result, raised>>

\* async_setup_entry lines 39-52, entered when async_setup returned True
EntryAfterTrue(avail) ==
    /\ setup_result' = "true"
    /\ pc' = "done"
    /\ IF avail
       THEN registered' = TRUE /\ entry_result' = "true"
       ELSE registered' = registered /\ entry_result' = "not_ready"

\* async_setup returned False: async_setup_entry line 36 awaits device.close()
ReturnFalse ==
    /\ setup_result' = "false"
    /\ pc' = "close_failed"
    /\ UNCHANGED <<available, entry_result, wire>>

\* Propagate with the Fault handler retrying like the RequestError handler
Propagate_FaultRetries(step, exc) ==
    /\ raised' = [step |-> step, exc |-> exc]
    /\ wire' = wire
    /\ IF exc \in {"RequestError", "Fault"}
       THEN /\ available' = FALSE
            /\ pc' = "close_unavailable"
            /\ UNCHANGED <<setup_result, entry_result>>
       ELSE /\ setup_result' = "raised"
            /\ entry_result' = "raised"
            /\ pc' = "done"
            /\ UNCHANGED available

\* Propagate with the RequestError handler failing like the Fault handler
Propagate_RequestErrorFails(step, exc) ==
    /\ raised' = [step |-> step, exc |-> exc]
    /\ wire' = wire
    /\ IF exc \in {"RequestError", "Fault"}
       THEN /\ setup_result' = "false"
            /\ pc' = "close_failed"
            /\ UNCHANGED <<available, entry_result>>
       ELSE /\ setup_result' = "raised"
            /\ entry_result' = "raised"
            /\ pc' = "done"
            /\ UNCHANGED available

\* An exception leaves a step inside the try of async_setup (lines 122-139):
\* RequestError marks the device unavailable and closes it, Fault returns
\* False, anything else leaves async_setup and async_setup_entry.
Propagate(step, exc) ==
    /\ raised' = [step |-> step, exc |-> exc]
    /\ wire' = wire
    /\ IF exc = "RequestError"
       THEN /\ available' = FALSE
            /\ pc' = "close_unavailable"
            /\ UNCHANGED <<setup_result, entry_result>>
       ELSE IF exc = "Fault"
       THEN /\ setup_result' = "false"
            /\ pc' = "close_failed"
            /\ UNCHANGED <<available, entry_result>>
       ELSE /\ setup_result' = "raised"
            /\ entry_result' = "raised"
            /\ pc' = "done"
            /\ UNCHANGED available

\* models.py: the Profile dataclass has the fields index, token, name and ptz
HasVideo(profile) == "video" \in DOMAIN profile

\* Finish without the test of line 110
Finish_KeepsEmpty(profs) ==
    /\ profiles' = profs
    /\ IF \E k \in 1..Len(profs) : ~HasVideo(profs[k])
       THEN Propagate("max_resolution", "AttributeError") /\ registered' = registered
       ELSE EntryAfterTrue(available) /\ UNCHANGED <<available, raised, wire>>

\* async_setup lines 106-121 and 141: the discovered list is stored, an empty
\* list fails setup, and max_resolution reads profile.video of every profile.
Finish(profs) ==
    /\ profiles' = profs
    /\ IF profs = <<>>
       THEN ReturnFalse /\ raised' = raised /\ registered' = registered
       ELSE IF \E k \in 1..Len(profs) : ~HasVideo(profs[k])
       THEN Propagate("max_resolution", "AttributeError") /\ registered' = registered
       ELSE EntryAfterTrue(available) /\ UNCHANGED <<available, raised, wire>>

\* --------------------------------------------------------------- async_setup
\* async_setup_entry line 35 calls async_setup, which creates the camera
\* object (lines 86-92) and awaits update_xaddrs (line 96).
async_setup ==
    /\ pc = "entry"
    /\ device' = "open"
    /\ Await("update_xaddrs", "update_xaddrs")
    /\ UNCHANGED <<info, capabilities, profiles, dt_diff_seconds, loc, registered,
                   closes, probe, clock, inv, stop>>

\* update_xaddrs that goes straight to the identity fetch
update_xaddrs_SkipsClock(Outcomes) ==
    /\ pc = "update_xaddrs"
    /\ \E o \in Outcomes :
          IF o = "ok"
          THEN Await("device_information", "GetDeviceInformation")
          ELSE Propagate("update_xaddrs", o)
    /\ UNCHANGED <<info, capabilities, profiles, dt_diff_seconds, device, loc,
                   registered, closes, probe, clock, inv, stop>>

\* update_xaddrs completes; async_check_date_and_time sends its query (line 181)
update_xaddrs(Outcomes) ==
    /\ pc = "update_xaddrs"
    /\ \E o \in Outcomes :
          IF o = "ok"
          THEN Await("clock_query", "GetSystemDateAndTime")
          ELSE Propagate("update_xaddrs", o)
    /\ UNCHANGED <<info, capabilities, profiles, dt_diff_seconds, device, loc,
                   registered, closes, probe, clock, inv, stop>>

\* async_check_date_and_time has ended: async_get_device_info line 247
ToDeviceInfo == Await("device_information", "GetDeviceInformation")

\* lines 192-200: the UTC date-time if the answer has one, else the local one
Cdate(answer) ==
    IF answer.UTCDateTime THEN Some("UTCDateTime")
    ELSE IF answer.LocalDateTime THEN Some("LocalDateTime")
    ELSE None

\* NeedsPush without the test of line 236
NeedsPush_AnyType(answer) == answer.diff > ClockSkewLimit

\* lines 225 and 236: the clock is pushed when the device is ahead by more
\* than the limit and its date-time type is Manual
NeedsPush(answer) == answer.diff > ClockSkewLimit /\ answer.DateTimeType = "Manual"

\* clock_query with a network-level failure of the query ending setup
clock_query_RequestErrorFatal(Outcomes) ==
    /\ pc = "clock_query"
    /\ \E a \in Outcomes :
          /\ clock' = a
          /\ IF a.status \in {"Fault", "RequestError"}
             THEN Propagate("clock_query", a.status) /\ dt_diff_seconds' = dt_diff_seconds
             ELSE IF a.status = "empty" \/ Cdate(a) = None
             THEN ToDeviceInfo /\ dt_diff_seconds' = dt_diff_seconds
             ELSE /\ dt_diff_seconds' = a.diff
                  /\ IF NeedsPush(a)
                     THEN Await("clock_template", "GetSystemDateAndTime")
                     ELSE ToDeviceInfo
    /\ UNCHANGED <<info, capabilities, profiles, device, loc, registered, closes,
                   probe, inv, stop>>

\* The clock query of async_check_date_and_time completes (lines 181-242).
clock_query(Outcomes) ==
    /\ pc = "clock_query"
    /\ \E a \in Outcomes :
          /\ clock' = a
          /\ IF a.status = "Fault"
             THEN Propagate("clock_query", "Fault") /\ dt_diff_seconds' = dt_diff_seconds
             ELSE IF a.status \in {"RequestError", "empty"} \/ Cdate(a) = None
             THEN ToDeviceInfo /\ dt_diff_seconds' = dt_diff_seconds
             ELSE /\ dt_diff_seconds' = a.diff
                  /\ IF NeedsPush(a)
                     THEN Await("clock_template", "GetSystemDateAndTime")
                     ELSE ToDeviceInfo
    /\ UNCHANGED <<info, capabilities, profiles, device, loc, registered, closes,
                   probe, inv, stop>>

\* async_manually_set_date_and_time, its template query completes (line 152);
\* lines 161-169 write into device_time.UTCDateTime, then line 171 pushes.
\* A RequestError is caught by the try of async_check_date_and_time (line 239).
clock_template(Outcomes) ==
    /\ pc = "clock_template"
    /\ \E t \in Outcomes :
          /\ clock' = [clock EXCEPT !.template =
                          IF t.status = "answered" /\ ~t.UTCDateTime THEN "no_utc" ELSE t.status]
          /\ IF t.status = "Fault" THEN Propagate("clock_template", "Fault")
             ELSE IF t.status = "RequestError" THEN ToDeviceInfo
             ELSE IF t.status = "empty" \/ ~t.UTCDateTime
             THEN Propagate("clock_template", "AttributeError")
             ELSE Await("clock_push", "SetSystemDateAndTime")
    /\ UNCHANGED <<info, capabilities, profiles, dt_diff_seconds, device, loc,
                   registered, closes, probe, inv, stop>>

\* SetSystemDateAndTime completes (line 171)
clock_push(Outcomes) ==
    /\ pc = "clock_push"
    /\ \E o \in Outcomes :
          IF o = "Fault" THEN Propagate("clock_push", "Fault") ELSE ToDeviceInfo
    /\ UNCHANGED <<info, capabilities, profiles, dt_diff_seconds, device, loc,
                   registered, closes, probe, clock, inv, stop>>

\* GetDeviceInformation completes (line 247); line 252 asks for the interfaces
device_information(Outcomes) ==
    /\ pc = "device_information"
    /\ \E o \in Outcomes :
          IF o = "ok"
          THEN Await("network_interfaces", "GetNetworkInterfaces")
          ELSE Propagate("device_information", o)
    /\ clock' = IF clock.status = "RequestError"
                THEN [NoClock EXCEPT !.status = "RequestError"]
                ELSE NoClock
    /\ UNCHANGED <<info, capabilities, profiles, dt_diff_seconds, device, loc,
                   registered, closes, probe, inv, stop>>

\* lines 250-255: the address of the last enabled interface
RECURSIVE LastMac(_, _)
LastMac(list, mac) ==
    IF list = <<>> THEN mac
    ELSE LastMac(Tail(list), IF Head(list).Enabled THEN Some(Head(list).HwAddress) ELSE mac)

\* Suppresses with only the library's own error class listed
Suppresses_OnlyONVIFError(exc) == exc = "ONVIFError"

\* line 277: with suppress(ONVIFError, Fault, RequestError)
Suppresses(exc) == exc \in {"ONVIFError", "Fault", "RequestError"}

\* async_get_capabilities with ptz set before the probe is made
async_get_capabilities_PtzFirst(p) == Capabilities(TRUE)

\* async_get_capabilities lines 276-281: ptz is True when get_definition
\* returned, False when its exception was suppressed
async_get_capabilities(p) == Capabilities(p = "ok")

\* GetNetworkInterfaces completes (lines 252-272); with no await in between,
\* line 102 stores the identity, line 104 probes and stores the capabilities,
\* and async_get_profiles sends GetProfiles (line 286).
network_interfaces(Outcomes, Probes) ==
    /\ pc = "network_interfaces"
    /\ \E o \in Outcomes, p \in Probes :
          IF o.status \in {"Fault", "RequestError"}
          THEN /\ Propagate("network_interfaces", o.status)
               /\ UNCHANGED <<info, capabilities, probe>>
          ELSE /\ info' = DeviceInfo(Some("device"), LastMac(o.list, None))
               /\ probe' = p
               /\ IF p = "ok" \/ Suppresses(p)
                  THEN /\ capabilities' = async_get_capabilities(p)
                       /\ Await("get_profiles", "GetProfiles")
                  ELSE /\ capabilities' = capabilities
                       /\ Propagate("get_capabilities", p)
    /\ UNCHANGED <<profiles, dt_diff_seconds, device, loc, registered, closes, clock, inv, stop>>

\* ---------------------------------------------------------- async_get_profiles
\* BuildProfile with the relative flag read from the continuous space field
BuildProfile_SharedFlag(ptz, key, onvif_profile) ==
    LET profile == Profile(key - 1, onvif_profile.token, onvif_profile.Name)
        cfg == onvif_profile.PTZConfiguration
    IN  IF ptz /\ cfg # None
        THEN [profile EXCEPT !.ptz =
                 Some(PTZ(cfg[1].DefaultContinuousPanTiltVelocitySpace,
                          cfg[1].DefaultContinuousPanTiltVelocitySpace,
                          cfg[1].DefaultAbsolutePantTiltPositionSpace))]
        ELSE profile

\* lines 293-308: the Profile built for the raw profile at position key
\* (enumerate counts from 0), with its PTZ flags when the device has PTZ and
\* the raw profile carries a PTZ configuration
BuildProfile(ptz, key, onvif_profile) ==
    LET profile == Profile(key - 1, onvif_profile.token, onvif_profile.Name)
        cfg == onvif_profile.PTZConfiguration
    IN  IF ptz /\ cfg # None
        THEN [profile EXCEPT !.ptz =
                 Some(PTZ(cfg[1].DefaultContinuousPanTiltVelocitySpace,
                          cfg[1].DefaultRelativePanTiltTranslationSpace,
                          cfg[1].DefaultAbsolutePantTiltPositionSpace))]
        ELSE profile

\* The for loop of lines 292-318 from position key up to its next await: a
\* profile without PTZ is appended at once, a profile with PTZ waits for
\* GetPresets (line 312).
RECURSIVE Discover(_, _, _, _)
Discover(ptz, result, built, key) ==
    IF key > Len(result)
    THEN [profiles |-> built, key |-> key, pending |-> FALSE]
    ELSE IF BuildProfile(ptz, key, result[key]).ptz # None
    THEN [profiles |-> built, key |-> key, pending |-> TRUE]
    ELSE Discover(ptz, result, Append(built, BuildProfile(ptz, key, result[key])), key + 1)

\* line 313: [preset.token for preset in presets if preset]
RECURSIVE PresetTokens(_)
PresetTokens(presets) ==
    IF presets = <<>> THEN <<>>
    ELSE IF Head(presets).token = None THEN PresetTokens(Tail(presets))
    ELSE <<Head(presets).token[1]>> \o PresetTokens(Tail(presets))

\* lines 310-316: the preset list of a profile, empty when GetPresets raised
PresetsOf(outcome) == IF outcome.status = "ok" THEN PresetTokens(outcome.presets) ELSE <<>>

\* The loop goes on to its next await, or ends and async_setup finishes.
Continue(ptz, result, built, key, faulted) ==
    LET d == Discover(ptz, result, built, key)
    IN  /\ loc' = [result |-> result, profiles |-> d.profiles, key |-> d.key,
                   faulted |-> faulted]
        /\ IF d.pending
           THEN /\ Await("get_presets", "GetPresets")
                /\ UNCHANGED <<profiles, registered>>
           ELSE Finish(d.profiles)

\* GetProfiles completes (line 286)
get_profiles(Outcomes) ==
    /\ pc = "get_profiles"
    /\ \E o \in Outcomes :
          IF o.status \in {"Fault", "RequestError"}
          THEN /\ Propagate("get_profiles", o.status)
               /\ UNCHANGED <<profiles, loc, registered>>
          ELSE IF o.status = "not_a_list"
          THEN loc' = NoLocals /\ Finish(<<>>)
          ELSE Continue(capabilities.ptz, o.result, <<>>, 1, {})
    /\ UNCHANGED <<info, capabilities, dt_diff_seconds, device, closes, probe, clock, inv, stop>>

\* get_presets with the handler of line 314 naming Fault only
get_presets_FaultOnly(Outcomes) ==
    /\ pc = "get_presets"
    /\ \E o \in Outcomes :
          LET profile == BuildProfile(capabilities.ptz, loc.key, loc.result[loc.key])
              withPresets == [profile EXCEPT !.ptz[1].presets = Some(PresetsOf(o))]
          IN  IF o.status = "RequestError"
              THEN /\ Propagate("get_presets", "RequestError")
                   /\ UNCHANGED <<profiles, loc, registered>>
              ELSE Continue(capabilities.ptz, loc.result, Append(loc.profiles, withPresets),
                            loc.key + 1,
                            IF o.status = "ok" THEN loc.faulted ELSE loc.faulted \cup {loc.key})
    /\ UNCHANGED <<info, capabilities, dt_diff_seconds, device, closes, probe, clock, inv, stop>>

\* GetPresets completes for the profile at loc.key (lines 312-318)
get_presets(Outcomes) ==
    /\ pc = "get_presets"
    /\ \E o \in Outcomes :
          LET profile == BuildProfile(capabilities.ptz, loc.key, loc.result[loc.key])
              withPresets == [profile EXCEPT !.ptz[1].presets = Some(PresetsOf(o))]
          IN  Continue(capabilities.ptz, loc.result, Append(loc.profiles, withPresets),
                       loc.key + 1,
                       IF o.status = "ok" THEN loc.faulted ELSE loc.faulted \cup {loc.key})
    /\ UNCHANGED <<info, capabilities, dt_diff_seconds, device, closes, probe, clock, inv, stop>>

\* device.close() of line 129 completes; async_setup returns True (line 141)
\* and async_setup_entry goes on at line 39.
close_unavailable ==
    /\ pc = "close_unavailable"
    /\ device' = "closed"
    /\ closes' = closes + 1
    /\ EntryAfterTrue(available)
    /\ UNCHANGED <<available, info, capabilities, profiles, dt_diff_seconds, loc, wire,
                   probe, clock, raised, inv, stop>>

\* device.device.close() of __init__.py line 36 completes; line 37 returns False
close_failed ==
    /\ pc = "close_failed"
    /\ device' = "closed"
    /\ closes' = closes + 1
    /\ entry_result' = "false"
    /\ pc' = "done"
    /\ UNCHANGED <<available, info, capabilities, profiles, dt_diff_seconds, loc,
                   setup_result, registered, wire, probe, clock, raised, inv, stop>>

\* async_stop (lines 143-145), called before async_setup_entry was started or
\* after it ended: `self.device` is read, which is an attribute of the object
\* only once line 86 has run, and the transport is closed.
async_stop ==
    /\ pc \in {"entry", "done"}
    /\ stop.calls < MaxStops
    /\ IF device = "unset"
       THEN /\ stop' = [calls |-> stop.calls + 1, outcome |-> "raised", exc |-> "AttributeError"]
            /\ UNCHANGED <<device, closes>>
       ELSE /\ stop' = [calls |-> stop.calls + 1, outcome |-> "returned", exc |-> "none"]
            /\ device' = "closed"
            /\ closes' = closes + 1
    /\ UNCHANGED <<available, info, capabilities, profiles, dt_diff_seconds, pc, loc,
                   setup_result, entry_result, registered, wire, probe, clock, raised, inv>>

\* Setup against a camera that may fail any call of the identity fetch, with
\* teardown requested before it or after it.
NextStop ==
    \/ async_setup
    \/ update_xaddrs(CallOutcomes)
    \/ clock_query(InSyncClock)
    \/ device_information(CallOutcomes)
    \/ network_interfaces(InterfaceOutcomes, FewProbeOutcomes)
    \/ get_profiles(FewProfileOutcomes)
    \/ get_presets(FewPresetOutcomes)
    \/ close_unavailable
    \/ close_failed
    \/ async_stop

SpecStop == Init /\ [][NextStop]_vars

\* Setup against a camera that may answer every call in every way.
NextSetup ==
    \/ async_setup
    \/ update_xaddrs(CallOutcomes)
    \/ clock_query(ClockOutcomes)
    \/ clock_template(ClockOutcomes)
    \/ clock_push(CallOutcomes)
    \/ device_information(CallOutcomes)
    \/ network_interfaces(InterfaceOutcomes, ProbeOutcomes)
    \/ get_profiles(AllProfileOutcomes)
    \/ get_presets(PresetOutcomes)
    \/ close_unavailable
    \/ close_failed

SpecSetup == Init /\ [][NextSetup]_vars

\* ----------------------------------------------------------- async_perform_ptz
\* What an awaited PTZ call may do: return, or raise ONVIFError (with or
\* without "Bad Request" in its reason), zeep Fault or httpx RequestError.
PtzOutcomes == {"ok", "ONVIFError:Bad Request", "ONVIFError", "Fault", "RequestError"}

\* line 445: except ONVIFError
IsONVIFError(exc) == exc \in {"ONVIFError:Bad Request", "ONVIFError"}

MoveModes == {CONTINUOUS_MOVE, RELATIVE_MOVE, ABSOLUTE_MOVE, GOTOPRESET_MOVE, STOP_MOVE}
Pans == {None, Some(DIR_RIGHT), Some(DIR_LEFT)}
Tilts == {None, Some(DIR_UP), Some(DIR_DOWN)}
Zooms == {None, Some(ZOOM_IN), Some(ZOOM_OUT)}
Distances == {5}
Speeds == {2}
\* continuous_duration: absent, or a number of ticks
Durations == {IF t < 0 THEN None ELSE Some(t) : t \in -1..MaxT}
PresetNames == {"p1", "p2", "p3"}

\* The arguments of a call; an argument the move mode never reads is left at
\* its default.
ArgsFor(mode) ==
    IF mode = CONTINUOUS_MOVE
    THEN {[NoArgs EXCEPT !.distance = d, !.pan = p, !.tilt = t, !.zoom = z,
                         !.continuous_duration = c] :
             d \in Distances, p \in Pans, t \in Tilts, z \in Zooms, c \in Durations}
    ELSE IF mode \in {RELATIVE_MOVE, ABSOLUTE_MOVE}
    THEN {[NoArgs EXCEPT !.distance = d, !.speed = v, !.pan = p, !.tilt = t, !.zoom = z] :
             d \in Distances, v \in Speeds, p \in Pans, t \in Tilts, z \in Zooms}
    ELSE IF mode = GOTOPRESET_MOVE
    THEN {[NoArgs EXCEPT !.speed = v, !.preset = Some(n)] : v \in Speeds, n \in PresetNames}
    ELSE {NoArgs}

\* Every call a caller may make: a move mode with its arguments.
Calls(Modes) == UNION {{[move_mode |-> m, args |-> a] : a \in ArgsFor(m)} : m \in Modes}
AllCalls == {c : c \in Calls(MoveModes)}

\* Relative and absolute moves over a range of distances and speeds, the
\* distance 5 with speed 2 among them.
TranslateDistances == {d : d \in (0..MaxDistance) \cup {5}}
TranslateSpeeds == {v : v \in 0..MaxSpeed}
TranslateCalls ==
    {[move_mode |-> m,
      args |-> [NoArgs EXCEPT !.distance = d, !.speed = v, !.pan = p, !.tilt = t, !.zoom = z]] :
        m \in {RELATIVE_MOVE, ABSOLUTE_MOVE}, d \in TranslateDistances, v \in TranslateSpeeds,
        p \in Pans, t \in Tilts, z \in Zooms}

\* A timed continuous move and an absolute move, for callers that overlap.
ConcurrentCalls ==
    {[move_mode |-> CONTINUOUS_MOVE,
      args |-> [NoArgs EXCEPT !.distance = 1, !.pan = Some(DIR_RIGHT),
                              !.continuous_duration = Some(MaxT)]],
     [move_mode |-> ABSOLUTE_MOVE,
      args |-> [NoArgs EXCEPT !.distance = 1, !.speed = 1, !.pan = Some(DIR_RIGHT)]]}
ConcurrentOutcomes == {"ok", "Fault"}

\* pan_val scaled by the speed as well
pan_val_SpeedScaled(args) == args.distance * args.speed * PAN_FACTOR(args.pan)

\* lines 341-343
pan_val(args) == args.distance * PAN_FACTOR(args.pan)
tilt_val(args) == args.distance * TILT_FACTOR(args.tilt)
zoom_val(args) == args.distance * ZOOM_FACTOR(args.zoom)

InSeq(x, seq) == \E j \in 1..Len(seq) : seq[j] = x

\* `not profile.ptz.presets`: None and the empty list are both falsy
NoPresets(ptz) == ptz.presets = None \/ ptz.presets[1] = <<>>

\* Rejected with the three move guards testing only that the profile has PTZ
Rejected_PtzOnly(profile, mode, args) ==
    IF mode \in {CONTINUOUS_MOVE, RELATIVE_MOVE, ABSOLUTE_MOVE} THEN profile.ptz = None
    ELSE IF mode = GOTOPRESET_MOVE
    THEN \/ profile.ptz = None
         \/ NoPresets(profile.ptz[1])
         \/ ~InSeq(args.preset[1], profile.ptz[1].presets[1])
    ELSE FALSE

\* Rejected without the membership test of line 425
Rejected_AnyPreset(profile, mode, args) ==
    IF mode = CONTINUOUS_MOVE THEN profile.ptz = None \/ ~profile.ptz[1].continuous
    ELSE IF mode = RELATIVE_MOVE THEN profile.ptz = None \/ ~profile.ptz[1].relative
    ELSE IF mode = ABSOLUTE_MOVE THEN profile.ptz = None \/ ~profile.ptz[1].absolute
    ELSE IF mode = GOTOPRESET_MOVE
    THEN profile.ptz = None \/ NoPresets(profile.ptz[1])
    ELSE FALSE

\* The guards of lines 363, 386, 403, 420 and 425: the move mode is rejected
\* for this profile.
Rejected(profile, mode, args) ==
    IF mode = CONTINUOUS_MOVE THEN profile.ptz = None \/ ~profile.ptz[1].continuous
    ELSE IF mode = RELATIVE_MOVE THEN profile.ptz = None \/ ~profile.ptz[1].relative
    ELSE IF mode = ABSOLUTE_MOVE THEN profile.ptz = None \/ ~profile.ptz[1].absolute
    ELSE IF mode = GOTOPRESET_MOVE
    THEN \/ profile.ptz = None
         \/ NoPresets(profile.ptz[1])
         \/ ~InSeq(args.preset[1], profile.ptz[1].presets[1])
    ELSE FALSE

\* lines 396-399
SpeedOf(args) == [PanTilt |-> [x |-> args.speed, y |-> args.speed], Zoom |-> [x |-> args.speed]]

\* The request of lines 359-444 for a move mode that was not rejected.
Request(profile, mode, args) ==
    IF mode = CONTINUOUS_MOVE
    THEN [op |-> mode, ProfileToken |-> profile.token,
          Velocity |->
             [PanTilt |-> IF args.pan # None \/ args.tilt # None
                          THEN Some([x |-> pan_val(args), y |-> tilt_val(args)]) ELSE None,
              Zoom |-> IF args.zoom # None THEN Some([x |-> zoom_val(args)]) ELSE None]]
    ELSE IF mode = RELATIVE_MOVE
    THEN [op |-> mode, ProfileToken |-> profile.token,
          Translation |-> [PanTilt |-> [x |-> pan_val(args), y |-> tilt_val(args)],
                           Zoom |-> [x |-> zoom_val(args)]],
          Speed |-> SpeedOf(args)]
    ELSE IF mode = ABSOLUTE_MOVE
    THEN [op |-> mode, ProfileToken |-> profile.token,
          Position |-> [PanTilt |-> [x |-> pan_val(args), y |-> tilt_val(args)],
                        Zoom |-> [x |-> zoom_val(args)]],
          Speed |-> SpeedOf(args)]
    ELSE IF mode = GOTOPRESET_MOVE
    THEN [op |-> mode, ProfileToken |-> profile.token, PresetToken |-> args.preset[1],
          Speed |-> SpeedOf(args)]
    ELSE [op |-> mode, ProfileToken |-> profile.token]

\* TimedStop with the token rebuilt from the profile's position
TimedStop_ByIndex(profile) ==
    [op |-> STOP_MOVE, ProfileToken |-> <<"token", profile.index>>, PanTilt |-> TRUE,
     Zoom |-> FALSE]

\* lines 379-383: the Stop that ends a timed continuous move
TimedStop(profile) ==
    [op |-> STOP_MOVE, ProfileToken |-> profile.token, PanTilt |-> TRUE, Zoom |-> FALSE]

\* async_perform_ptz returns
Returned(task, level) == [task EXCEPT !.pc = "done", !.outcome = "returned", !.logged = level]

\* lines 445-449: an ONVIFError is logged and the coroutine returns; any other
\* exception leaves async_perform_ptz
Failed(task, exc) ==
    IF IsONVIFError(exc)
    THEN [Returned(task, IF exc = "ONVIFError:Bad Request" THEN "warning" ELSE "error")
             EXCEPT !.exc = exc]
    ELSE [task EXCEPT !.pc = "done", !.outcome = "raised", !.exc = exc]

\* Start without the device-level test of line 335
Start_NoDeviceGate(ptz, profile, mode, args) ==
    LET task == [Idle EXCEPT !.profile = profile, !.move_mode = mode, !.args = args]
    IN  IF Rejected(profile, mode, args)
        THEN Returned(task, "warning")
        ELSE [task EXCEPT !.pc = IF mode = CONTINUOUS_MOVE THEN "await_move" ELSE "await_call",
                          !.sent = <<Request(profile, mode, args)>>]

\* lines 335-444 up to the first await: the device-level test, the guard of
\* the move mode, then the request is built and sent.
Start(ptz, profile, mode, args) ==
    LET task == [Idle EXCEPT !.profile = profile, !.move_mode = mode, !.args = args]
    IN  IF ~ptz \/ Rejected(profile, mode, args)
        THEN Returned(task, "warning")
        ELSE [task EXCEPT !.pc = IF mode = CONTINUOUS_MOVE THEN "await_move" ELSE "await_call",
                          !.sent = <<Request(profile, mode, args)>>]

\* the callers suspended between their ContinuousMove and their Stop
MidMove == {j \in 1..MaxInv : inv[j].pc \in {"await_move", "sleep"}}

\* async_perform_ptz that waits until no other invocation is in progress
async_perform_ptz_Exclusive(i, Requested) ==
    /\ inv[i].pc = "idle"
    /\ \A j \in 1..MaxInv : inv[j].pc \in {"idle", "done"}
    /\ \E k \in 1..Len(profiles), c \in Requested :
          inv' = [inv EXCEPT ![i] =
                     [Start(capabilities.ptz, profiles[k], c.move_mode, c.args)
                         EXCEPT !.during = MidMove]]
    /\ UNCHANGED <<sessionVars, setupVars, stop>>

\* A caller invokes async_perform_ptz with one of the session's profiles; the
\* coroutine runs up to its first await.  `during` records which callers were
\* suspended inside a continuous move at that moment.
async_perform_ptz(i, Requested) ==
    /\ inv[i].pc = "idle"
    /\ \E k \in 1..Len(profiles), c \in Requested :
          inv' = [inv EXCEPT ![i] =
                     [Start(capabilities.ptz, profiles[k], c.move_mode, c.args)
                         EXCEPT !.during = MidMove]]
    /\ UNCHANGED <<sessionVars, setupVars, stop>>

\* The awaited RelativeMove, AbsoluteMove, GotoPreset or Stop completes
\* (lines 400, 417, 442, 444 and 381).
call_done(i, Outcomes) ==
    /\ inv[i].pc = "await_call"
    /\ \E o \in Outcomes :
          LET task == [inv[i] EXCEPT !.replies = Append(@, o)]
          IN  inv' = [inv EXCEPT ![i] = IF o = "ok" THEN Returned(task, "none")
                                        ELSE Failed(task, o)]
    /\ UNCHANGED <<sessionVars, setupVars, stop>>

\* The awaited ContinuousMove completes (line 377) and asyncio.sleep is
\* entered (line 378), which raises TypeError for a duration of None.
move_done(i, Outcomes) ==
    /\ inv[i].pc = "await_move"
    /\ \E o \in Outcomes :
          LET task == [inv[i] EXCEPT !.replies = Append(@, o)]
          IN  inv' = [inv EXCEPT ![i] =
                         IF o # "ok" THEN Failed(task, o)
                         ELSE IF task.args.continuous_duration = None
                         THEN Failed(task, "TypeError")
                         ELSE [task EXCEPT !.pc = "sleep"]]
    /\ UNCHANGED <<sessionVars, setupVars, stop>>

\* One tick of time passes for every task inside asyncio.sleep.
tick ==
    /\ \E i \in 1..MaxInv :
          inv[i].pc = "sleep" /\ inv[i].slept < inv[i].args.continuous_duration[1]
    /\ inv' = [i \in 1..MaxInv |->
                 IF inv[i].pc = "sleep" /\ inv[i].slept < inv[i].args.continuous_duration[1]
                 THEN [inv[i] EXCEPT !.slept = @ + 1]
                 ELSE inv[i]]
    /\ UNCHANGED <<sessionVars, setupVars, stop>>

\* wake that does not wait for the duration to elapse
wake_Early(i) ==
    /\ inv[i].pc = "sleep"
    /\ inv' = [inv EXCEPT ![i] = [@ EXCEPT !.pc = "await_call",
                                           !.sent = Append(@, TimedStop(inv[i].profile))]]
    /\ UNCHANGED <<sessionVars, setupVars, stop>>

\* asyncio.sleep returns once the duration has elapsed; the Stop of lines
\* 379-383 is sent.
wake(i) ==
    /\ inv[i].pc = "sleep"
    /\ inv[i].slept >= inv[i].args.continuous_duration[1]
    /\ inv' = [inv EXCEPT ![i] = [@ EXCEPT !.pc = "await_call",
                                           !.sent = Append(@, TimedStop(inv[i].profile))]]
    /\ UNCHANGED <<sessionVars, setupVars, stop>>

\* The caller drops the finished coroutine and may call again.
forget(i) ==
    /\ inv[i].pc = "done"
    /\ inv' = [inv EXCEPT ![i] = Idle]
    /\ UNCHANGED <<sessionVars, setupVars, stop>>

\* Setup against a camera that answers every call, has its clock in sync and
\* lists profiles with and without PTZ, followed by the PTZ commands of one
\* caller, each answered in every way.
Next ==
    \/ async_setup
    \/ update_xaddrs(Answered)
    \/ clock_query(InSyncClock)
    \/ device_information(Answered)
    \/ network_interfaces(NoInterfaces, FewProbeOutcomes)
    \/ get_profiles(FewProfileOutcomes)
    \/ get_presets(FewPresetOutcomes)
    \/ close_unavailable
    \/ close_failed
    \/ async_perform_ptz(1, AllCalls)
    \/ call_done(1, PtzOutcomes)
    \/ move_done(1, PtzOutcomes)
    \/ tick
    \/ wake(1)
    \/ forget(1)

Spec == Init /\ [][Next]_vars

\* Setup against a camera whose profiles support relative and absolute
\* moves, followed by one caller's moves over a range of distances, speeds
\* and directions.
NextTranslate ==
    \/ async_setup
    \/ update_xaddrs(Answered)
    \/ clock_query(InSyncClock)
    \/ device_information(Answered)
    \/ network_interfaces(NoInterfaces, Answered)
    \/ get_profiles(TranslateProfileOutcomes)
    \/ get_presets(OnePresetOutcome)
    \/ close_failed
    \/ async_perform_ptz(1, TranslateCalls)
    \/ call_done(1, Answered)

SpecTranslate == Init /\ [][NextTranslate]_vars

\* Setup against a camera with two profiles, followed by the commands of
\* several callers that run as tasks of one event loop.
NextConcurrent ==
    \/ async_setup
    \/ update_xaddrs(Answered)
    \/ clock_query(InSyncClock)
    \/ device_information(Answered)
    \/ network_interfaces(NoInterfaces, Answered)
    \/ get_profiles(ConcurrentProfileOutcomes)
    \/ get_presets(OnePresetOutcome)
    \/ \E i \in 1..MaxInv : async_perform_ptz(i, ConcurrentCalls)
    \/ \E i \in 1..MaxInv : call_done(i, ConcurrentOutcomes)
    \/ \E i \in 1..MaxInv : move_done(i, ConcurrentOutcomes)
    \/ tick
    \/ \E i \in 1..MaxInv : wake(i)

SpecConcurrent == Init /\ [][NextConcurrent]_vars

\* ===================================================================== claims
Count(seq, x) == Cardinality({i \in 1..Len(seq) : seq[i] = x})
Sent(op) == Count(wire, op) > 0

\* correction pushes of this setup
Pushes == Count(wire, "SetSystemDateAndTime")

Tasks == {i : i \in 1..MaxInv}
Called(i) == inv[i].pc # "idle"

\* the profile's MotionSpaceSupport advertises the move kind
Advertises(profile, mode) ==
    /\ profile.ptz # None
    /\ \/ mode = CONTINUOUS_MOVE /\ profile.ptz[1].continuous
       \/ mode = RELATIVE_MOVE /\ profile.ptz[1].relative
       \/ mode = ABSOLUTE_MOVE /\ profile.ptz[1].absolute

\* C1: a ContinuousMove, RelativeMove or AbsoluteMove command on a profile
\* that has no MotionSpaceSupport, or whose MotionSpaceSupport does not
\* advertise that kind, sends nothing (no move, no stop) and returns normally.
C1_UnsupportedMoveSendsNothing ==
    \A i \in Tasks :
        (/\ Called(i)
         /\ inv[i].move_mode \in {CONTINUOUS_MOVE, RELATIVE_MOVE, ABSOLUTE_MOVE}
         /\ ~Advertises(inv[i].profile, inv[i].move_mode))
        => (inv[i].sent = <<>> /\ inv[i].pc = "done" /\ inv[i].outcome = "returned")

\* two profiles, only the second with PTZ and continuous only: an absolute
\* move on it was rejected
C1_Witness ==
    /\ Len(profiles) = 2 /\ profiles[1].ptz = None
    /\ \E i \in Tasks :
          /\ inv[i].pc = "done" /\ inv[i].move_mode = ABSOLUTE_MOVE
          /\ inv[i].profile = profiles[2]
          /\ inv[i].profile.ptz # None
          /\ inv[i].profile.ptz[1].continuous /\ ~inv[i].profile.ptz[1].absolute
          /\ inv[i].sent = <<>> /\ inv[i].outcome = "returned"

\* the preset token is in the profile's preset list
Listed(profile, preset) ==
    /\ profile.ptz # None
    /\ profile.ptz[1].presets # None
    /\ InSeq(preset, profile.ptz[1].presets[1])

\* C2: a GotoPreset command whose token is not in the profile's preset list
\* (an empty or absent list included) sends nothing, however many presets the
\* profile lists; a GotoPreset request is sent only for a listed token.
C2_UnknownPresetSendsNothing ==
    \A i \in Tasks :
        (Called(i) /\ inv[i].move_mode = GOTOPRESET_MOVE) =>
            IF Listed(inv[i].profile, inv[i].args.preset[1])
            THEN inv[i].sent # <<>> => /\ inv[i].sent[1].op = GOTOPRESET_MOVE
                                       /\ inv[i].sent[1].PresetToken = inv[i].args.preset[1]
            ELSE inv[i].sent = <<>> /\ inv[i].pc = "done"

C2_Witness ==
    \E i \in Tasks :
        /\ inv[i].pc = "done" /\ inv[i].move_mode = GOTOPRESET_MOVE
        /\ inv[i].profile.ptz # None
        /\ inv[i].profile.ptz[1].presets = Some(<<"p1", "p2">>)
        /\ inv[i].args.preset = Some("p3")
        /\ inv[i].sent = <<>>

\* a continuous move with a positive duration on a continuous-capable profile
TimedMove(i) ==
    /\ Called(i)
    /\ inv[i].move_mode = CONTINUOUS_MOVE
    /\ Advertises(inv[i].profile, CONTINUOUS_MOVE)
    /\ inv[i].args.continuous_duration # None
    /\ inv[i].args.continuous_duration[1] > 0

\* C3: a timed continuous move sends one ContinuousMove, then, only after the
\* move has returned and the whole duration has elapsed, exactly one Stop with
\* the same profile token; when the ContinuousMove fails no Stop is sent.
C3_MoveThenOneStop ==
    \A i \in Tasks :
        TimedMove(i) =>
            /\ Len(inv[i].sent) \in {1, 2}
            /\ inv[i].sent[1].op = CONTINUOUS_MOVE
            /\ inv[i].sent[1].ProfileToken = inv[i].profile.token
            /\ Len(inv[i].sent) = 2 =>
                  /\ inv[i].sent[2].op = STOP_MOVE
                  /\ inv[i].sent[2].ProfileToken = inv[i].profile.token
                  /\ inv[i].replies # <<>> /\ inv[i].replies[1] = "ok"
                  /\ inv[i].slept = inv[i].args.continuous_duration[1]
            /\ (inv[i].replies # <<>> /\ inv[i].replies[1] # "ok") =>
                  (Len(inv[i].sent) = 1 /\ inv[i].pc = "done")
            /\ (inv[i].pc = "done" /\ inv[i].replies[1] = "ok") => Len(inv[i].sent) = 2

C3_Witness ==
    \E i \in Tasks :
        /\ TimedMove(i) /\ inv[i].pc = "done"
        /\ inv[i].args.continuous_duration = Some(MaxT)
        /\ Len(inv[i].sent) = 2 /\ inv[i].sent[2].op = STOP_MOVE
        /\ inv[i].replies = <<"ok", "ok">>

\* C4: no failure of the transport while a PTZ request is built, sent or
\* awaited leaves async_perform_ptz: the coroutine returns and the failure is
\* logged, as a warning for a bad request and as an error otherwise.
C4_NoCommandRaises ==
    \A i \in Tasks :
        inv[i].exc \in PtzOutcomes =>
            /\ inv[i].outcome = "returned"
            /\ inv[i].logged = (IF inv[i].exc = "ONVIFError:Bad Request" THEN "warning"
                                ELSE "error")

\* C11: async_stop never raises, in whatever state the session is: before
\* setup was started, after a setup that failed, after one that went through,
\* or called again.
C11_StopNeverRaises == stop.outcome # "raised"

\* C12 as stated: a Stop command is never rejected, for every profile and
\* every device capability state, and a Stop request for the profile is sent.
C12_Original ==
    \A i \in Tasks :
        (Called(i) /\ inv[i].move_mode = STOP_MOVE) =>
            inv[i].sent = <<[op |-> STOP_MOVE, ProfileToken |-> inv[i].profile.token]>>

\* C12 amended: a Stop command passes no per-profile gate: on a device whose
\* PTZ capability flag is set it sends a Stop request for the profile,
\* whatever the profile supports; on a device whose flag is not set it is
\* rejected like every other command and sends nothing.
C12_StopNeedsDevicePtzOnly ==
    \A i \in Tasks :
        (Called(i) /\ inv[i].move_mode = STOP_MOVE) =>
            IF capabilities.ptz
            THEN inv[i].sent = <<[op |-> STOP_MOVE, ProfileToken |-> inv[i].profile.token]>>
            ELSE /\ inv[i].sent = <<>>
                 /\ inv[i].pc = "done" /\ inv[i].outcome = "returned"
                 /\ inv[i].logged = "warning"

\* a Stop answered by the camera, on a profile without PTZ configuration of a
\* device that has PTZ and also lists a profile with PTZ
C12_Witness ==
    /\ capabilities.ptz
    /\ \E k \in 1..Len(profiles) : profiles[k].ptz # None
    /\ \E i \in Tasks :
          /\ inv[i].pc = "done" /\ inv[i].move_mode = STOP_MOVE
          /\ inv[i].profile.ptz = None
          /\ Len(inv[i].sent) = 1 /\ inv[i].replies = <<"ok">>

\* C13: the Stop that ends a timed continuous move is sent for the same
\* profile with the pan-tilt flag and the zoom flag both set.
C13_TimedStopStopsBothAxes ==
    \A i \in Tasks :
        (inv[i].move_mode = CONTINUOUS_MOVE /\ Len(inv[i].sent) = 2) =>
            /\ inv[i].sent[2].op = STOP_MOVE
            /\ inv[i].sent[2].ProfileToken = inv[i].profile.token
            /\ inv[i].sent[2].PanTilt
            /\ inv[i].sent[2].Zoom

\* a continuous move on a continuous-capable profile with a duration that is
\* zero or absent
UntimedMove(i) ==
    /\ Called(i)
    /\ inv[i].move_mode = CONTINUOUS_MOVE
    /\ Advertises(inv[i].profile, CONTINUOUS_MOVE)
    /\ inv[i].args.continuous_duration \in {None, Some(0)}

\* C14: a continuous move with a duration that is zero or absent sends the
\* ContinuousMove and leaves it running: no Stop is sent by that invocation,
\* and once the move was accepted the invocation returns normally.
C14_UntimedMoveLeftRunning ==
    \A i \in Tasks :
        UntimedMove(i) =>
            /\ Len(inv[i].sent) = 1
            /\ inv[i].sent[1].op = CONTINUOUS_MOVE
            /\ (inv[i].pc = "done" /\ inv[i].replies[1] = "ok") => inv[i].outcome = "returned"

\* C15: every request async_perform_ptz sends, the Stop after a timed move
\* included, carries the token stored on the Profile that was passed in, and
\* that token is the one the camera returned for the profile in its listing.
C15_TokenForwarded ==
    \A i \in Tasks :
        Called(i) =>
            /\ \A j \in 1..Len(inv[i].sent) :
                   inv[i].sent[j].ProfileToken = inv[i].profile.token
            /\ \E k \in 1..Len(profiles) :
                   /\ profiles[k] = inv[i].profile
                   /\ k <= Len(loc.result)
                   /\ inv[i].profile.token = loc.result[k].token

\* a timed move on the second profile of the listing, move and Stop sent
C15_Witness ==
    /\ Len(profiles) = 2
    /\ \E i \in Tasks :
          /\ inv[i].pc = "done" /\ inv[i].profile = profiles[2]
          /\ Len(inv[i].sent) = 2
          /\ inv[i].sent[1].ProfileToken = loc.result[2].token
          /\ inv[i].sent[2].ProfileToken = loc.result[2].token

\* +d for the positive direction symbol, -d for the negative one, 0 when the
\* axis is unspecified
Signed(d, symbol, positive, negative) ==
    IF symbol = Some(positive) THEN d
    ELSE IF symbol = Some(negative) THEN 0 - d
    ELSE 0

\* the pan-tilt and zoom vector of a RelativeMove or AbsoluteMove request
Vector(request) ==
    IF request.op = RELATIVE_MOVE THEN request.Translation ELSE request.Position

\* C16: a RelativeMove or AbsoluteMove request carries, per axis and
\* independently, pan = +d for RIGHT, -d for LEFT, 0 when unspecified, tilt =
\* +d for UP, -d for DOWN, 0 when unspecified, zoom = +d for ZOOM_IN, -d for
\* ZOOM_OUT, 0 when unspecified; the speed does not change these values.
C16_DirectionsPerAxis ==
    \A i \in Tasks :
        (Called(i) /\ inv[i].move_mode \in {RELATIVE_MOVE, ABSOLUTE_MOVE}
                   /\ inv[i].sent # <<>>) =>
            LET a == inv[i].args
                v == Vector(inv[i].sent[1])
            IN  /\ v.PanTilt.x = Signed(a.distance, a.pan, DIR_RIGHT, DIR_LEFT)
                /\ v.PanTilt.y = Signed(a.distance, a.tilt, DIR_UP, DIR_DOWN)
                /\ v.Zoom.x = Signed(a.distance, a.zoom, ZOOM_IN, ZOOM_OUT)
                /\ \A speed \in TranslateSpeeds :
                      Vector(Request(inv[i].profile, inv[i].move_mode,
                                     [a EXCEPT !.speed = speed])) = v

\* pan right, distance 5, speed 2 on an absolute move: pan +5, tilt 0, zoom 0
C16_Witness ==
    \E i \in Tasks :
        /\ inv[i].pc = "done" /\ inv[i].move_mode = ABSOLUTE_MOVE
        /\ inv[i].args.pan = Some(DIR_RIGHT) /\ inv[i].args.tilt = None
        /\ inv[i].args.zoom = None
        /\ inv[i].args.distance = 5 /\ inv[i].args.speed = 2
        /\ inv[i].sent[1].Position = [PanTilt |-> [x |-> 5, y |-> 0], Zoom |-> [x |-> 0]]

\* the requests of discovery, and those of the clock check
DiscoveryOps == {"GetDeviceInformation", "GetNetworkInterfaces", "GetProfiles", "GetPresets"}
ClockOps == {"GetSystemDateAndTime", "SetSystemDateAndTime"}

\* C17: in a run of async_setup the clock check runs once and has ended
\* before the first discovery request: every identity, interface, profile or
\* preset request, and the PTZ probe, comes after the clock query (the second
\* request of the run), no request of the clock check follows a discovery
\* request, and the check is not suspended any more.
C17_ClockCheckOnceBeforeDiscovery ==
    /\ \A j \in 1..Len(wire) :
           wire[j] \in DiscoveryOps =>
               /\ j > 2
               /\ wire[2] = "GetSystemDateAndTime"
               /\ \A k \in j..Len(wire) : wire[k] \notin ClockOps
               /\ pc \notin {"update_xaddrs", "clock_query", "clock_template", "clock_push"}
    /\ probe # "none" => Sent("GetNetworkInterfaces")
    /\ Count(wire, "GetSystemDateAndTime") <= 2
    /\ Count(wire, "GetSystemDateAndTime") = 2 =>
           (wire[2] = "GetSystemDateAndTime" /\ wire[3] = "GetSystemDateAndTime")
    /\ Pushes <= 1

\* a check that pushed the clock, followed by a discovery down to the presets
C17_Witness ==
    /\ pc = "done" /\ Pushes = 1
    /\ Sent("GetPresets")
    /\ wire[4] = "SetSystemDateAndTime" /\ wire[5] = "GetDeviceInformation"

\* the clock query of this setup failed with a network-level error
ClockQueryFailed == clock.status = "RequestError"

\* C18: when the clock query fails with a network-level error the clock
\* check ends without a correction push and without failing setup: no
\* exception leaves the check, the device stays available, and
\* GetDeviceInformation is the next request; identity, capabilities and
\* profiles are fetched in the same pass unless one of those steps fails.
C18_ClockFailureNotFatal ==
    ClockQueryFailed =>
        /\ Pushes = 0
        /\ Count(wire, "GetSystemDateAndTime") = 1
        /\ raised.step \notin {"clock_query", "clock_template", "clock_push"}
        /\ Len(wire) >= 3 /\ wire[3] = "GetDeviceInformation"
        /\ dt_diff_seconds = 0
        /\ raised = NotRaised =>
               /\ available
               /\ pc \in {"close_failed", "done"} => Sent("GetProfiles")

\* the clock query failed, and the pass went on to store identity, PTZ
\* capability and two profiles
C18_Witness ==
    /\ ClockQueryFailed
    /\ info.identity # None /\ capabilities.ptz /\ Len(profiles) = 2
    /\ Sent("GetPresets")

\* the session shows the identity or the capability flag of this pass
NewIdentityOrFlag == info # DeviceInfo(None, None) \/ probe # "none"

\* the session shows the profile collection of this pass: line 106 has run
ProfilesStored ==
    pc \in {"close_failed", "done"} /\ raised.step \in {"none", "max_resolution"}

\* C19: the capability model is replaced as a unit: wherever another task can
\* run (each suspension point of async_setup, and after it ended), a session
\* that shows the identity or the capability flag of this pass also shows the
\* profile collection of this pass.
C19_ModelReplacedAsUnit == NewIdentityOrFlag => ProfilesStored

\* the invocation is suspended between its ContinuousMove and its Stop
Suspended(i) == inv[i].pc \in {"await_move", "sleep"}

\* C20: a timed continuous move does not exclude other commands: while one
\* invocation is suspended between its ContinuousMove and its Stop, any other
\* caller can invoke a command, and a command that is awaiting its reply can
\* complete; an invocation sends its Stop once its own move has returned and
\* its own duration has elapsed, whatever the other invocations do.
C20_CommandsInterleave ==
    \A i \in Tasks :
        /\ Suspended(i) =>
               \A j \in Tasks \ {i} :
                   /\ inv[j].pc = "idle" => ENABLED async_perform_ptz(j, ConcurrentCalls)
                   /\ inv[j].pc = "await_call" => ENABLED call_done(j, ConcurrentOutcomes)
        /\ (inv[i].pc = "sleep" /\ inv[i].slept >= inv[i].args.continuous_duration[1]) =>
               ENABLED wake(i)
        /\ Len(inv[i].sent) = 2 =>
               /\ inv[i].replies[1] = "ok"
               /\ inv[i].slept = inv[i].args.continuous_duration[1]

\* an absolute move on the same profile was invoked while another caller's
\* timed move was suspended, and has completed before that caller's Stop
C20_Witness ==
    \E i \in Tasks, j \in Tasks :
        /\ i # j
        /\ inv[i].pc = "sleep" /\ Len(inv[i].sent) = 1
        /\ i \in inv[j].during
        /\ inv[j].pc = "done" /\ inv[j].move_mode = ABSOLUTE_MOVE
        /\ inv[j].profile = inv[i].profile
        /\ Len(inv[j].sent) = 1 /\ inv[j].replies = <<"ok">>

\* the media-profile listing has returned to async_get_profiles
ListingReturned == Sent("GetProfiles") /\ pc # "get_profiles" /\ raised.step # "get_profiles"

\* C5: when the media-profile listing returns no profile or something that is
\* not a list, async_setup returns False and the device is not registered,
\* whatever the clock check, the identity fetch and the PTZ probe did before.
C5_NoProfilesFailsSetup ==
    (ListingReturned /\ loc.result = <<>>) => (setup_result = "false" /\ ~registered)

C5_Witness ==
    /\ ListingReturned /\ loc.result = <<>>
    /\ probe = "ok" /\ Pushes = 1
    /\ setup_result = "false" /\ entry_result = "false"

\* C6: a Fault that leaves a setup step makes async_setup return False (never
\* True, never an exception), and async_setup_entry then closes the camera
\* and returns False without registering the device.
C6_FaultFailsSetup ==
    raised.exc = "Fault" =>
        /\ setup_result = "false"
        /\ ~registered
        /\ entry_result = (IF pc = "done" THEN "false" ELSE "none")

C6_Witness ==
    raised = [step |-> "get_profiles", exc |-> "Fault"] /\ pc = "done" /\ entry_result = "false"

\* C7: a RequestError that leaves a setup step marks the device unavailable
\* and async_setup returns True; async_setup_entry then raises
\* ConfigEntryNotReady, which lets the platform retry.
C7_RequestErrorIsRetryable ==
    raised.exc = "RequestError" =>
        /\ ~available
        /\ ~registered
        /\ setup_result = (IF pc = "done" THEN "true" ELSE "none")
        /\ entry_result = (IF pc = "done" THEN "not_ready" ELSE "none")

C7_Witness ==
    raised = [step |-> "device_information", exc |-> "RequestError"]
    /\ pc = "done" /\ setup_result = "true"

\* the PTZ probe threw a transport-level exception
ProbeThrew == probe \in {"Fault", "RequestError"}

\* C8 as stated: when the PTZ probe throws a transport-level fault or timeout
\* the device is marked unavailable, and setup returns True when the other
\* steps succeeded.
C8_Original ==
    ProbeThrew =>
        /\ ~available
        /\ (pc = "done" /\ raised = NotRaised) => setup_result = "true"

\* C8 amended: when the PTZ probe throws a transport-level fault or timeout
\* the exception is suppressed: PTZ support is recorded as absent, GetProfiles
\* is sent next, and the device is marked unavailable only if the listing
\* itself then raises a RequestError.
C8_ProbeFailureSuppressed ==
    ProbeThrew =>
        /\ ~capabilities.ptz
        /\ Sent("GetProfiles")
        /\ raised.step \in {"none", "get_profiles", "max_resolution"}
        /\ ~available => raised = [step |-> "get_profiles", exc |-> "RequestError"]

C8_Witness == ProbeThrew /\ pc = "done" /\ available /\ Len(profiles) > 0

\* C9: the PTZ probe never ends setup: whatever its outcome, no exception of
\* the probe leaves async_get_capabilities and profile discovery is started;
\* capabilities.ptz is True exactly when the probe found the PTZ service.
C9_ProbeNeverFailsSetup ==
    /\ capabilities.ptz <=> probe = "ok"
    /\ probe # "none" => (Sent("GetProfiles") /\ raised.step # "get_capabilities")

C9_Witness == probe = "ONVIFError" /\ ~capabilities.ptz /\ Len(profiles) = MaxProfiles

\* the device is ahead of the local clock by more than the limit
Drifted(answer) ==
    answer.status = "answered" /\ Cdate(answer) # None /\ answer.diff > ClockSkewLimit

\* async_check_date_and_time has ended, normally or by an exception
ClockCheckEnded ==
    pc = "device_information" \/ raised.step \in {"clock_query", "clock_template", "clock_push"}

\* C10 as stated: one clock check sends exactly one SetSystemDateAndTime when
\* the device is ahead by more than 5 seconds and reports a Manual time
\* source, none when the source is not Manual, none when in sync.
C10_Original ==
    ClockCheckEnded =>
        /\ (Drifted(clock) /\ clock.DateTimeType = "Manual") => Pushes = 1
        /\ ~(Drifted(clock) /\ clock.DateTimeType = "Manual") => Pushes = 0

\* C10 amended: one clock check sends at most one SetSystemDateAndTime, and
\* sends one exactly when the device is ahead by more than 5 seconds, reports
\* a Manual time source, and the second GetSystemDateAndTime query (the
\* template of the push) returned a date-time with its UTC part.
C10_PushNeedsTemplate ==
    /\ Pushes <= 1
    /\ ClockCheckEnded =>
          (Pushes = 1 <=> /\ Drifted(clock)
                          /\ clock.DateTimeType = "Manual"
                          /\ clock.template = "answered")

C10_Witness ==
    pc = "device_information" /\ Pushes = 1 /\ clock.diff = ClockSkewLimit + 1
    /\ ~clock.UTCDateTime

\* the profile is the one discovery builds for the raw profile at position k
\* of the listing (positions count from 1, indexes from 0)
Discovered(profile, k, onvif_profile) ==
    /\ profile.index = k - 1
    /\ profile.token = onvif_profile.token
    /\ profile.name = onvif_profile.Name
    /\ profile.ptz # None <=> (capabilities.ptz /\ onvif_profile.PTZConfiguration # None)
    /\ profile.ptz # None =>
          LET cfg == onvif_profile.PTZConfiguration[1]
          IN  /\ profile.ptz[1].continuous <=> cfg.DefaultContinuousPanTiltVelocitySpace
              /\ profile.ptz[1].relative <=> cfg.DefaultRelativePanTiltTranslationSpace
              /\ profile.ptz[1].absolute <=> cfg.DefaultAbsolutePantTiltPositionSpace

\* C21: the profiles discovery has built so far, and the stored collection
\* once discovery has returned, follow the listing in order with index equal
\* to position; a profile has MotionSpaceSupport exactly when the device has
\* PTZ and the raw profile carries a PTZ configuration, and each of its three
\* flags is true exactly when the matching default space field is present.
C21_ProfilesFollowListing ==
    /\ Len(loc.profiles) <= Len(loc.result)
    /\ \A k \in 1..Len(loc.profiles) : Discovered(loc.profiles[k], k, loc.result[k])
    /\ ProfilesStored =>
           /\ profiles = loc.profiles
           /\ Len(profiles) = Len(loc.result)

\* a device with PTZ: the first profile has no PTZ configuration, the second
\* one has the relative space only
C21_Witness ==
    /\ ProfilesStored /\ capabilities.ptz
    /\ Len(profiles) = 2
    /\ profiles[1].ptz = None /\ profiles[1].index = 0
    /\ profiles[2].ptz # None /\ profiles[2].index = 1
    /\ ~profiles[2].ptz[1].continuous /\ profiles[2].ptz[1].relative
    /\ ~profiles[2].ptz[1].absolute

\* C22: a Fault or RequestError of a profile's GetPresets stays with that
\* profile: the profile gets an empty preset list, no exception leaves the
\* preset step, the device stays available and setup does not fail for it,
\* and discovery goes through the whole listing.
C22_PresetFailureContained ==
    /\ raised.step # "get_presets"
    /\ \A k \in loc.faulted :
           k <= Len(loc.profiles) /\ loc.profiles[k].ptz[1].presets = Some(<<>>)
    /\ loc.faulted # {} =>
           /\ available
           /\ setup_result # "false"
           /\ raised.exc \notin {"Fault", "RequestError"}
           /\ pc \in {"get_presets", "done"}
           /\ pc = "done" => (profiles = loc.profiles /\ Len(profiles) = Len(loc.result))

\* GetPresets raised for the first profile and listed two presets (and a
\* null entry) for the second
C22_Witness ==
    /\ pc = "done" /\ loc.faulted = {1}
    /\ Len(profiles) = 2
    /\ profiles[1].ptz # None /\ profiles[1].ptz[1].presets = Some(<<>>)
    /\ profiles[2].ptz # None /\ profiles[2].ptz[1].presets = Some(<<"p1", "p2">>)

\* every step of this setup succeeded and the listing had at least one
\* profile: the clock query was answered, the probe found the PTZ service,
\* no GetPresets raised, and the stored collection is not empty
AllStepsSucceeded ==
    /\ ProfilesStored /\ pc = "done"
    /\ ~ClockQueryFailed /\ probe = "ok" /\ loc.faulted = {}
    /\ profiles # <<>>

\* C23: when every setup step succeeds and the device returns at least one
\* profile, async_setup returns True with the device available, and the
\* platform registers the device.
C23_SuccessfulSetupRegisters ==
    AllStepsSucceeded => (setup_result = "true" /\ available /\ registered)

\* C24: when async_setup_entry has ended without storing the device (setup
\* returned False, the device is unavailable, or an exception ended setup),
\* the transport opened by that setup has been closed, exactly once.
C24_NoLeakWithoutRegistration ==
    (pc = "done" /\ ~registered) => (device = "closed" /\ closes = 1)
====
